---- MODULE Spec2Model ----
(***************************************************************************)
(* Shape-level model of the MedNeXt architecture module                    *)
(* (nnunetv2/training/nnUNetTrainer/variants/network_architecture/         *)
(* nnUNetTrainerMedNeXt.py).                                               *)
(*                                                                         *)
(* A tensor is modelled by its shape <<batch, channels, spatial...>>; a    *)
(* module object by a record of the attributes its __init__ assigns; a     *)
(* raised exception by an error value that every later operation of the    *)
(* same call propagates unchanged.  The tensor library's operations        *)
(* (convolution, transposed convolution, padding, broadcasting add, group  *)
(* norm) are modelled by their shape arithmetic and their shape errors.    *)
(***************************************************************************)
EXTENDS Integers, Sequences, FiniteSets, TLC

VARIABLES cls, args, phase, obj, input, out, trace, paths, orig

vars == <<cls, args, phase, obj, input, out, trace, paths, orig>>

(***************************************************************************)
(* Bounds of the model.                                                    *)
(***************************************************************************)
MaxSize == 6
MaxAniso == 2
MaxKernel == 3
MaxBatch == 2

(***************************************************************************)
(* Values.                                                                 *)
(***************************************************************************)
None == [kind |-> "none"]
Tensor(shape) == [kind |-> "tensor", shape |-> shape]
List(items) == [kind |-> "list", items |-> items]
Err(type, at) == [kind |-> "error", type |-> type, at |-> at]

IsErr(v) == v.kind = "error"
IsTensor(v) == v.kind = "tensor"
IsList(v) == v.kind = "list"

Max(a, b) == IF a >= b THEN a ELSE b

\* The sequence with the elements of the function f on 1..n.
AsSeq(f) == <<>> \o f

\* The spatial axes of a tensor shape: everything after batch and channel.
Spatial(shape) == SubSeq(shape, 3, Len(shape))

(***************************************************************************)
(* Tensor library: shape arithmetic.                                       *)
(***************************************************************************)
\* nn.Conv2d / nn.Conv3d / nn.ConvTranspose2d / nn.ConvTranspose3d objects.
ConvNd(nd, transposed, cin, cout, k, stride, padding) ==
    [nd |-> nd, transposed |-> transposed, in_channels |-> cin,
     out_channels |-> cout, kernel_size |-> k, stride |-> stride,
     padding |-> padding]

\* A convolution that ignores its stride.
ConvOutSizeUnstrided(c, s) == (s + 2 * c.padding - c.kernel_size) + 1

\* Output size of one spatial axis of a convolution.
ConvOutSize(c, s) == ((s + 2 * c.padding - c.kernel_size) \div c.stride) + 1

\* Output size of one spatial axis of a transposed convolution.
ConvTransposeOutSize(c, s) == (s - 1) * c.stride - 2 * c.padding + c.kernel_size

\* Calling a convolution module on a value.
ConvForward(c, v) ==
    IF IsErr(v) THEN v
    ELSE IF ~IsTensor(v) THEN Err("TypeError", "conv")
    ELSE IF Len(v.shape) # c.nd + 2 THEN Err("RuntimeError", "conv")
    ELSE IF v.shape[2] # c.in_channels THEN Err("RuntimeError", "conv")
    ELSE LET sp == Spatial(v.shape)
             o == [i \in 1..c.nd |->
                      IF c.transposed THEN ConvTransposeOutSize(c, sp[i])
                      ELSE ConvOutSize(c, sp[i])]
         IN  IF \E i \in 1..c.nd :
                    \/ o[i] <= 0
                    \/ (~c.transposed /\ sp[i] + 2 * c.padding < c.kernel_size)
             THEN Err("RuntimeError", "conv")
             ELSE Tensor(<<v.shape[1], c.out_channels>> \o o)

\* Broadcasting of two shapes (aligned at the trailing axis); <<>> if the
\* shapes are not broadcastable.  No tensor of the model has rank 0.
DimAt(shape, L, i) ==
    IF i > L - Len(shape) THEN shape[i - (L - Len(shape))] ELSE 1

Broadcastable(s1, s2) ==
    LET L == Max(Len(s1), Len(s2))
    IN  \A i \in 1..L :
            \/ DimAt(s1, L, i) = DimAt(s2, L, i)
            \/ DimAt(s1, L, i) = 1
            \/ DimAt(s2, L, i) = 1

BroadcastShape(s1, s2) ==
    LET L == Max(Len(s1), Len(s2))
    IN  AsSeq([i \in 1..L |-> Max(DimAt(s1, L, i), DimAt(s2, L, i))])

\* a + b on tensors.
Add(a, b) ==
    IF IsErr(a) THEN a
    ELSE IF IsErr(b) THEN b
    ELSE IF ~(IsTensor(a) /\ IsTensor(b)) THEN Err("TypeError", "add")
    ELSE IF ~Broadcastable(a.shape, b.shape) THEN Err("RuntimeError", "add")
    ELSE Tensor(BroadcastShape(a.shape, b.shape))

\* A padding that adds nothing.
PadNothing(n, v) == v

\* torch.nn.functional.pad(x, (1, 0) * n): one leading unit on each of the
\* last n axes.
PadLeading(n, v) ==
    IF IsErr(v) THEN v
    ELSE IF Len(v.shape) < n THEN Err("RuntimeError", "pad")
    ELSE Tensor(AsSeq([i \in 1..Len(v.shape) |->
                          IF i > Len(v.shape) - n THEN v.shape[i] + 1
                          ELSE v.shape[i]]))

RECURSIVE Product(_)
Product(s) == IF s = <<>> THEN 1 ELSE Head(s) * Product(Tail(s))

\* nn.GroupNorm(num_groups = C, num_channels = C): shape preserving; the
\* library refuses an input with a single value per group.
GroupNormForward(num_channels, v) ==
    IF IsErr(v) THEN v
    ELSE IF v.shape[2] # num_channels THEN Err("RuntimeError", "norm")
    ELSE IF v.shape[1] * Product(Spatial(v.shape)) = 1
         THEN Err("ValueError", "norm")
    ELSE v

(***************************************************************************)
(* LayerNorm.                                                              *)
(***************************************************************************)
DataFormats == {"channels_last", "channels_first"}

LayerNormInit(normalized_shape, data_format) ==
    IF data_format \notin DataFormats
    THEN Err("NotImplementedError", "LayerNorm.__init__")
    ELSE [kind |-> "module", cls |-> "LayerNorm",
          normalized_shape |-> normalized_shape,
          data_format |-> data_format]

\* weight[:, None, None, None] and bias[:, None, None, None].
AffineShape(ln) == <<ln.normalized_shape, 1, 1, 1>>

LayerNormForward(ln, v) ==
    IF IsErr(v) THEN v
    ELSE IF ln.data_format = "channels_last"
    THEN IF v.shape[Len(v.shape)] # ln.normalized_shape
         THEN Err("RuntimeError", "norm")
         ELSE v
    ELSE \* u, s keep the channel axis with size 1; (x - u) / sqrt(s + eps)
         \* has the shape of x; the affine parameters are then broadcast.
         Add(Add(Tensor(AffineShape(ln)), v), Tensor(AffineShape(ln)))

(***************************************************************************)
(* MedNeXtBlock.                                                           *)
(***************************************************************************)
SupportedDims == {"2d", "3d"}

\* The norm_type values for which __init__ assigns self.norm.
SupportedNorms == {"group", "layer"}

\* An assert that is compiled away.
AssertSkipped(value, allowed) == TRUE

\* assert value in [...]
AssertIn(value, allowed) == value \in allowed

\* if dim == '2d': conv = ... elif dim == '3d': conv = ...; any other dim
\* leaves conv unbound, and its first use raises.
ConvBound(dim) == dim = "2d" \/ dim = "3d"

\* Number of spatial axes of the convolution class chosen for dim.
NdOf(dim) == IF dim = "2d" THEN 2 ELSE 3

\* The norm attribute: assigned only for 'group' and 'layer'.
NormOf(norm_type, channels) ==
    IF norm_type \notin SupportedNorms
    THEN [set |-> FALSE, type |-> "unset", num_channels |-> channels]
    ELSE IF norm_type = "group"
    THEN [set |-> TRUE, type |-> "GroupNorm", num_channels |-> channels]
    ELSE [set |-> TRUE, type |-> "LayerNorm", num_channels |-> channels]

\* A block whose own residual flag is the one the caller passed.
BlockFieldsCallerFlag(name, a, do_res) ==
    [kind |-> "module", cls |-> name, do_res |-> a.do_res, dim |-> a.dim,
     conv1 |-> ConvNd(NdOf(a.dim), FALSE, a.in_channels, a.in_channels,
                      a.kernel_size, 1, a.kernel_size \div 2),
     norm |-> NormOf(a.norm_type, a.in_channels),
     conv2 |-> ConvNd(NdOf(a.dim), FALSE, a.in_channels,
                      a.exp_r * a.in_channels, 1, 1, 0),
     conv3 |-> ConvNd(NdOf(a.dim), FALSE, a.exp_r * a.in_channels,
                      a.out_channels, 1, 1, 0),
     grn |-> a.grn,
     grn_channels |-> a.exp_r * a.in_channels]

\* MedNeXtBlock.__init__ with the given class name and first convolution.
BlockFields(name, a, do_res) ==
    [kind |-> "module", cls |-> name, do_res |-> do_res, dim |-> a.dim,
     conv1 |-> ConvNd(NdOf(a.dim), FALSE, a.in_channels, a.in_channels,
                      a.kernel_size, 1, a.kernel_size \div 2),
     norm |-> NormOf(a.norm_type, a.in_channels),
     conv2 |-> ConvNd(NdOf(a.dim), FALSE, a.in_channels,
                      a.exp_r * a.in_channels, 1, 1, 0),
     conv3 |-> ConvNd(NdOf(a.dim), FALSE, a.exp_r * a.in_channels,
                      a.out_channels, 1, 1, 0),
     grn |-> a.grn,
     grn_channels |-> a.exp_r * a.in_channels]

MedNeXtBlockInit(a) ==
    IF ~AssertIn(a.dim, SupportedDims)
    THEN Err("AssertionError", "MedNeXtBlock.__init__")
    ELSE IF ~ConvBound(a.dim)
    THEN Err("UnboundLocalError", "MedNeXtBlock.__init__")
    ELSE BlockFields("MedNeXtBlock", a, a.do_res)

NormForward(norm, v) ==
    IF IsErr(v) THEN v
    ELSE IF ~norm.set THEN Err("AttributeError", "MedNeXtBlock.forward")
    ELSE IF norm.type = "GroupNorm" THEN GroupNormForward(norm.num_channels, v)
    ELSE LayerNormForward(LayerNormInit(norm.num_channels, "channels_first"), v)

\* Global response normalization: gx keeps batch and channel axes, the
\* affine parameters have shape (1, exp_r * in_channels, 1, ...).
GrnForward(blk, v) ==
    IF IsErr(v) \/ ~blk.grn THEN v
    ELSE LET nd == NdOf(blk.dim)
             param == Tensor(<<1, blk.grn_channels>> \o [i \in 1..nd |-> 1])
             gx == Tensor(AsSeq([i \in 1..Len(v.shape) |->
                              IF i > Len(v.shape) - nd THEN 1 ELSE v.shape[i]]))
             nx == gx
         IN  Add(Add(Add(param, Add(v, nx)), param), v)

\* MedNeXtBlock.forward
\* if self.do_res: x1 = x + x1
Residual(blk, x, x1) == IF blk.do_res THEN Add(x, x1) ELSE x1

MedNeXtBlockForward(blk, x) ==
    Residual(blk, x,
        ConvForward(blk.conv3,
            GrnForward(blk,
                ConvForward(blk.conv2,
                    NormForward(blk.norm, ConvForward(blk.conv1, x))))))

(***************************************************************************)
(* MedNeXtDownBlock.                                                       *)
(***************************************************************************)
MedNeXtDownBlockInit(a) ==
    IF ~AssertIn(a.dim, SupportedDims)
    THEN Err("AssertionError", "MedNeXtBlock.__init__")
    ELSE IF ~ConvBound(a.dim)
    THEN Err("UnboundLocalError", "MedNeXtBlock.__init__")
    ELSE [BlockFields("MedNeXtDownBlock", a, FALSE) EXCEPT
              !.conv1 = ConvNd(NdOf(a.dim), FALSE, a.in_channels,
                               a.in_channels, a.kernel_size, 2,
                               a.kernel_size \div 2)]
         @@ [resample_do_res |-> a.do_res,
             \* res_conv is assigned only if do_res.
             res_conv |-> IF a.do_res
                          THEN ConvNd(NdOf(a.dim), FALSE, a.in_channels,
                                      a.out_channels, 1, 2, 0)
                          ELSE None]

\* The two paths of MedNeXtDownBlock.forward and their sum.
DownMainPath(blk, x) == MedNeXtBlockForward(blk, x)

\* The projection is computed only under resample_do_res.
DownResPath(blk, x) ==
    IF blk.resample_do_res THEN ConvForward(blk.res_conv, x) ELSE None

\* if self.resample_do_res: x1 = x1 + res
AddResample(blk, x1, res) ==
    IF IsErr(x1) THEN x1
    ELSE IF blk.resample_do_res THEN Add(x1, res)
    ELSE x1

MedNeXtDownBlockForward(blk, x) ==
    AddResample(blk, DownMainPath(blk, x), DownResPath(blk, x))

(***************************************************************************)
(* MedNeXtUpBlock.                                                         *)
(***************************************************************************)
MedNeXtUpBlockInit(a) ==
    IF ~AssertIn(a.dim, SupportedDims)
    THEN Err("AssertionError", "MedNeXtBlock.__init__")
    ELSE IF ~ConvBound(a.dim)
    THEN Err("UnboundLocalError", "MedNeXtBlock.__init__")
    ELSE [BlockFields("MedNeXtUpBlock", a, FALSE) EXCEPT
              !.conv1 = ConvNd(NdOf(a.dim), TRUE, a.in_channels,
                               a.in_channels, a.kernel_size, 2,
                               a.kernel_size \div 2)]
         @@ [resample_do_res |-> a.do_res,
             res_conv |-> IF a.do_res
                          THEN ConvNd(NdOf(a.dim), TRUE, a.in_channels,
                                      a.out_channels, 1, 2, 0)
                          ELSE None]

\* The two paths of MedNeXtUpBlock.forward, each after its padding.
UpMainPath(blk, x) == PadLeading(NdOf(blk.dim), MedNeXtBlockForward(blk, x))

UpResPath(blk, x) ==
    IF blk.resample_do_res
    THEN PadLeading(NdOf(blk.dim), ConvForward(blk.res_conv, x))
    ELSE None

MedNeXtUpBlockForward(blk, x) ==
    AddResample(blk, UpMainPath(blk, x), UpResPath(blk, x))

(***************************************************************************)
(* OutBlock.                                                               *)
(***************************************************************************)
\* conv is bound only for '2d' and '3d': any other dim raises at the use.
OutBlockInit(in_channels, n_classes, dim) ==
    IF ~ConvBound(dim)
    THEN Err("UnboundLocalError", "OutBlock.__init__")
    ELSE [kind |-> "module", cls |-> "OutBlock",
          conv_out |-> ConvNd(NdOf(dim), TRUE, in_channels, n_classes, 1, 1, 0)]

OutBlockForward(blk, x) == ConvForward(blk.conv_out, x)

(***************************************************************************)
(* Helpers shared by the encoder, the decoder and the network.             *)
(***************************************************************************)
CheckpointStyles == {"None", "outside_block"}

\* An optional integer argument: <<>> is None, <<k>> is k.
IsNone(opt) == opt = <<>>

\* if type(exp_r) == int: exp_r = [exp_r for i in range(len(block_counts))]
\* exp_r is [scalar |-> TRUE, value |-> <<e>>] for the int e, and
\* [scalar |-> FALSE, value |-> list] for a list.
ExpandExpR(exp_r, block_counts) ==
    IF exp_r.scalar THEN [i \in 1..Len(block_counts) |-> exp_r.value[1]]
    ELSE exp_r.value

\* The first error among the sub-modules built, in construction order.
RECURSIVE FirstError(_)
FirstError(mods) ==
    IF mods = <<>> THEN None
    ELSE IF IsErr(Head(mods)) THEN Head(mods)
    ELSE FirstError(Tail(mods))

RECURSIVE Flatten(_)
Flatten(seqs) == IF seqs = <<>> THEN <<>> ELSE Head(seqs) \o Flatten(Tail(seqs))

\* Arguments of one block of a stage.
BlockArgs(a, cin, cout, exp_r, k, do_res, grn) ==
    [in_channels |-> cin, out_channels |-> cout, exp_r |-> exp_r,
     kernel_size |-> k, do_res |-> do_res, norm_type |-> a.norm_type,
     dim |-> a.dim, grn |-> grn]

\* nn.Sequential(*[MedNeXtBlock(...) for i in range(count)])
StageBlocks(a, width, exp_r, k, count) ==
    AsSeq([j \in 1..count |->
        MedNeXtBlockInit(BlockArgs(a, width, width, exp_r, k, a.do_res, a.grn))])

\* One event of a forward pass: a module invocation or a skip fusion.
Ev(op, stage, idx, via, lhs, rhs) ==
    [op |-> op, stage |-> stage, idx |-> idx, via |-> via,
     lhs |-> lhs, rhs |-> rhs]

\* Running statement "x = module(x)": the invocation is recorded, then the
\* module's result (or its exception) becomes x.  Nothing runs after an
\* exception.
Invoke(st, ev, v) ==
    IF IsErr(st.x) THEN st
    ELSE [st EXCEPT !.x = v, !.trace = Append(@, ev)]

\* Calling an nn.Sequential of blocks owned by `owner`: each block in order.
RECURSIVE SequentialFrom(_, _, _, _, _)
SequentialFrom(op, stage, blocks, j, st) ==
    IF j > Len(blocks) THEN st
    ELSE SequentialFrom(op, stage, blocks, j + 1,
            Invoke(st, Ev(op, stage, j, "direct", <<>>, <<>>),
                   MedNeXtBlockForward(blocks[j], st.x)))

\* MedNeXt.iterative_checkpoint: each block through checkpoint.checkpoint
\* with self.dummy_tensor, an attribute only the decoder defines.
RECURSIVE IterativeCheckpoint(_, _, _, _, _)
IterativeCheckpoint(op, stage, blocks, j, st) ==
    IF j > Len(blocks) THEN st
    ELSE IterativeCheckpoint(op, stage, blocks, j + 1,
            Invoke(st, Ev(op, stage, j, "checkpoint", <<>>, <<>>),
                   Err("AttributeError", "MedNeXt.iterative_checkpoint")))

\* A forward that routes stage sequences through iterative_checkpoint when
\* outside-block checkpointing is on.
SequentialCheckpointed(owner, op, stage, blocks, st) ==
    IF owner.outside_block_checkpointing
    THEN IterativeCheckpoint(op, stage, blocks, 1, st)
    ELSE SequentialFrom(op, stage, blocks, 1, st)

\* self.<stage sequence>(x) as the forward methods write it.
SequentialForward(owner, op, stage, blocks, st) ==
    SequentialFrom(op, stage, blocks, 1, st)

(***************************************************************************)
(* MedNeXtEncoder.                                                         *)
(***************************************************************************)
\* a: [in_channels, n_channels, exp_r, kernel_size, do_res, do_res_up_down,
\*     checkpoint_style, block_counts, norm_type, dim, grn]
EncoderModules(a) ==
    LET n == a.n_channels
        k == a.kernel_size[1]
        e == ExpandExpR(a.exp_r, a.block_counts)
    IN  [stem |-> ConvNd(NdOf(a.dim), FALSE, a.in_channels, n, 1, 1, 0),
         enc_block |-> [i \in 1..4 |->
             StageBlocks(a, n * 2^(i-1), e[i], k, a.block_counts[i])],
         \* down_0 is built without the grn argument (default False).
         down |-> [i \in 1..4 |->
             MedNeXtDownBlockInit(
                 BlockArgs(a, n * 2^(i-1), n * 2^i, e[i+1], k,
                           a.do_res_up_down, IF i = 1 THEN FALSE ELSE a.grn))]]

\* The sub-modules in construction order.
EncoderBuilt(m) == Flatten([i \in 1..4 |-> m.enc_block[i] \o <<m.down[i]>>])

\* The object __init__ leaves, unless building a sub-module raised.
Raised(built, object) == IF IsErr(built) THEN built ELSE object

EncoderObject(a, m) ==
    Raised(FirstError(EncoderBuilt(m)),
           [kind |-> "module", cls |-> "MedNeXtEncoder",
            inside_block_checkpointing |-> FALSE,
            outside_block_checkpointing |->
                (a.checkpoint_style = "outside_block"),
            stem |-> m.stem, enc_block |-> m.enc_block, down |-> m.down,
            \* __init__ never assigns return_skips.
            return_skips |-> "unset"])

MedNeXtEncoderInit(a) ==
    IF ~AssertIn(a.checkpoint_style, CheckpointStyles)
    THEN Err("AssertionError", "MedNeXtEncoder.__init__")
    ELSE IF ~AssertIn(a.dim, SupportedDims)
    THEN Err("AssertionError", "MedNeXtEncoder.__init__")
    ELSE IF ~ConvBound(a.dim)
    THEN Err("UnboundLocalError", "MedNeXtEncoder.__init__")
    ELSE IF IsNone(a.kernel_size)
    \* enc_kernel_size is bound only when kernel_size is not None.
    THEN Err("UnboundLocalError", "MedNeXtEncoder.__init__")
    ELSE EncoderObject(a, EncoderModules(a))

\* x = self.stem(x)
EncStem(enc, x) ==
    Invoke([x |-> x, trace |-> <<>>, ret |-> <<>>],
           Ev("stem", 0, 1, "direct", <<>>, <<>>), ConvForward(enc.stem, x))

\* ret.append(x)
EncAppend(st) ==
    IF IsErr(st.x) THEN st ELSE [st EXCEPT !.ret = Append(@, st.x)]

\* x = self.down_i(x)
EncDown(enc, i, st) ==
    Invoke(st, Ev("down", i, 1, "direct", <<>>, <<>>),
           MedNeXtDownBlockForward(enc.down[i+1], st.x))

\* x = self.enc_block_i(x); ret.append(x); x = self.down_i(x)  (i = 0..3)
RECURSIVE EncoderStages(_, _, _)
EncoderStages(enc, i, st) ==
    IF i > 3 THEN st
    ELSE EncoderStages(enc, i + 1,
            EncDown(enc, i,
                EncAppend(SequentialForward(enc, "enc_block", i,
                                            enc.enc_block[i+1], st))))

\* The body of MedNeXtEncoder.forward up to the last ret.append(x).
EncoderBody(enc, x) == EncAppend(EncoderStages(enc, 0, EncStem(enc, x)))

\* if self.return_skips: return ret  else: return ret[-1]
EncoderReturn(enc, st) ==
    IF IsErr(st.x) THEN st.x
    ELSE IF enc.return_skips = "unset"
    THEN Err("AttributeError", "MedNeXtEncoder.forward")
    ELSE IF enc.return_skips = "True" THEN List(st.ret)
    ELSE st.ret[Len(st.ret)]

\* MedNeXtEncoder.forward: the value returned (or the exception raised) and
\* the events of the pass.
EncoderResult(enc, st) ==
    [val |-> EncoderReturn(enc, st), trace |-> st.trace, ret |-> st.ret]

MedNeXtEncoderForward(enc, x) == EncoderResult(enc, EncoderBody(enc, x))

(***************************************************************************)
(* MedNeXtDecoder.                                                         *)
(***************************************************************************)
\* Python's "a, b, ... = v" with n targets: v is iterated; a list must hold
\* exactly n items, a tensor is iterated along its first axis.
Unpack(v, n) ==
    IF IsErr(v) THEN v
    ELSE IF IsList(v)
    THEN IF Len(v.items) = n THEN v ELSE Err("ValueError", "unpack")
    ELSE IF IsTensor(v)
    THEN IF Len(v.shape) >= 1 /\ v.shape[1] = n
         THEN List(AsSeq([i \in 1..n |-> Tensor(Tail(v.shape))]))
         ELSE Err("ValueError", "unpack")
    ELSE Err("TypeError", "unpack")

\* a: [in_channels, n_channels, n_classes, exp_r, kernel_size,
\*     deep_supervision, do_res, do_res_up_down, checkpoint_style,
\*     block_counts, norm_type, dim, grn]
\* Stage i (0..3) is held at index i + 1; out holds out_0 and, with deep
\* supervision, out_1..out_4.
DecoderModules(a) ==
    LET n == a.n_channels
        k == a.kernel_size[1]
        e == ExpandExpR(a.exp_r, a.block_counts)
    IN  [bottleneck |-> StageBlocks(a, n * 16, e[5], k, a.block_counts[5]),
         up |-> [i \in 1..4 |->
             MedNeXtUpBlockInit(
                 BlockArgs(a, n * 2^i, n * 2^(i-1), e[10-i], k,
                           a.do_res_up_down, a.grn))],
         dec_block |-> [i \in 1..4 |->
             StageBlocks(a, n * 2^(i-1), e[10-i], k, a.block_counts[10-i])],
         out |-> [i \in 1..(IF a.deep_supervision THEN 5 ELSE 1) |->
             OutBlockInit(n * 2^(i-1), a.n_classes, a.dim)]]

\* The sub-modules in construction order.
DecoderBuilt(m) ==
    m.bottleneck
    \o Flatten([j \in 1..4 |-> <<m.up[5-j]>> \o m.dec_block[5-j]])
    \o m.out

DecoderObject(a, m) ==
    Raised(FirstError(DecoderBuilt(m)),
           [kind |-> "module", cls |-> "MedNeXtDecoder",
            do_ds |-> a.deep_supervision,
            inside_block_checkpointing |-> FALSE,
            outside_block_checkpointing |->
                (a.checkpoint_style = "outside_block"),
            bottleneck |-> m.bottleneck, up |-> m.up,
            dec_block |-> m.dec_block, out |-> m.out,
            dummy_tensor |-> TRUE,
            block_counts |-> a.block_counts])

MedNeXtDecoderInit(a) ==
    IF ~AssertIn(a.checkpoint_style, CheckpointStyles)
    THEN Err("AssertionError", "MedNeXtDecoder.__init__")
    ELSE IF ~AssertIn(a.dim, SupportedDims)
    THEN Err("AssertionError", "MedNeXtDecoder.__init__")
    ELSE IF IsNone(a.kernel_size)
    \* dec_kernel_size is bound only when kernel_size is not None.
    THEN Err("UnboundLocalError", "MedNeXtDecoder.__init__")
    ELSE DecoderObject(a, DecoderModules(a))

\* The skip fusion "dec_x = x_res_i + x_up_i".
Fuse(skip, up) == Add(skip, up)

\* x_ds_i = self.out_i(x), when deep supervision is on.
Supervised(st, ev, o) ==
    IF IsErr(o) THEN [st EXCEPT !.x = o, !.trace = Append(@, ev)]
    ELSE [st EXCEPT !.ds = Append(@, o), !.trace = Append(@, ev)]

DeepSupervise(dec, i, st) ==
    IF IsErr(st.x) \/ ~dec.do_ds THEN st
    ELSE Supervised(st, Ev("out", i, 1, "direct", <<>>, <<>>),
                    OutBlockForward(dec.out[i+1], st.x))

\* x_up_i = self.up_i(x)
DecUp(dec, i, st) ==
    Invoke(st, Ev("up", i, 1, "direct", <<>>, <<>>),
           MedNeXtUpBlockForward(dec.up[i+1], st.x))

\* dec_x = x_res_i + x_up_i, x_res_i being item 4 - i of skips.
DecFuse(res, i, st) ==
    IF IsErr(st.x) THEN st
    ELSE Invoke(st, Ev("fuse", i, 4 - i, "direct", res[4 - i].shape, st.x.shape),
                Fuse(res[4 - i], st.x))

\* if self.do_ds: x_ds_i = self.out_i(x)   (stages 3, 2, 1)
DecSupervise(dec, i, st) == IF i >= 1 THEN DeepSupervise(dec, i, st) ELSE st

\* Decoder stages 3, 2, 1, 0: upsample, fuse with the skip, run the stage,
\* project if supervised.
RECURSIVE DecoderStages(_, _, _, _)
DecoderStages(dec, res, i, st) ==
    IF i < 0 \/ IsErr(st.x) THEN st
    ELSE DecoderStages(dec, res, i - 1,
            DecSupervise(dec, i,
                SequentialForward(dec, "dec_block", i, dec.dec_block[i+1],
                    DecFuse(res, i, DecUp(dec, i, st)))))

\* x_res_3, x_res_2, x_res_1, x_res_0 = skips
DecStart(x, res) ==
    [x |-> IF IsErr(res) THEN res ELSE x, trace |-> <<>>, ds |-> <<>>]

DecItems(res) == IF IsErr(res) THEN <<>> ELSE res.items

\* x = self.out_0(x)
DecOut(dec, st) ==
    Invoke(st, Ev("out", 0, 1, "direct", <<>>, <<>>),
           OutBlockForward(dec.out[1], st.x))

\* A return that lists the projections in the order they were computed.
DecoderResultCoarsestFirst(dec, st) ==
    [val |-> IF IsErr(st.x) THEN st.x
             ELSE IF dec.do_ds THEN List(Append(st.ds, st.x))
             ELSE st.x,
     trace |-> st.trace]

\* return [x, x_ds_1, x_ds_2, x_ds_3, x_ds_4]  or  return x
DecoderResult(dec, st) ==
    [val |-> IF IsErr(st.x) THEN st.x
             ELSE IF dec.do_ds
             THEN List(<<st.x, st.ds[4], st.ds[3], st.ds[2], st.ds[1]>>)
             ELSE st.x,
     trace |-> st.trace]

DecoderBody(dec, x, res) ==
    DecOut(dec,
        DecoderStages(dec, DecItems(res), 3,
            DeepSupervise(dec, 4,
                SequentialForward(dec, "bottleneck", 4, dec.bottleneck,
                                  DecStart(x, res)))))

\* MedNeXtDecoder.forward(x, skips): the value returned (or the exception
\* raised) and the events of the pass.
MedNeXtDecoderForward(dec, x, skips) ==
    DecoderResult(dec, DecoderBody(dec, x, Unpack(skips, 4)))

(***************************************************************************)
(* MedNeXt.                                                                *)
(***************************************************************************)
\* a: the decoder's arguments plus enc_kernel_size and dec_kernel_size.
EncoderArgs(a, k) ==
    [in_channels |-> a.in_channels, n_channels |-> a.n_channels,
     exp_r |-> a.exp_r, kernel_size |-> k, do_res |-> a.do_res,
     do_res_up_down |-> a.do_res_up_down,
     checkpoint_style |-> a.checkpoint_style,
     block_counts |-> a.block_counts, norm_type |-> a.norm_type,
     dim |-> a.dim, grn |-> a.grn]

DecoderArgs(a, k) ==
    [in_channels |-> a.in_channels, n_channels |-> a.n_channels,
     n_classes |-> a.n_classes, exp_r |-> a.exp_r, kernel_size |-> k,
     deep_supervision |-> a.deep_supervision, do_res |-> a.do_res,
     do_res_up_down |-> a.do_res_up_down,
     checkpoint_style |-> a.checkpoint_style,
     block_counts |-> a.block_counts, norm_type |-> a.norm_type,
     dim |-> a.dim, grn |-> a.grn]

\* if kernel_size is not None: enc_kernel_size = dec_kernel_size = kernel_size
EncKernelSize(a) ==
    IF ~IsNone(a.kernel_size) THEN a.kernel_size ELSE a.enc_kernel_size

DecKernelSize(a) ==
    IF ~IsNone(a.kernel_size) THEN a.kernel_size ELSE a.dec_kernel_size

MedNeXtObject(a, enc, dec) ==
    IF IsErr(enc) THEN enc
    ELSE IF IsErr(dec) THEN dec
    ELSE [kind |-> "module", cls |-> "MedNeXt",
          do_ds |-> a.deep_supervision,
          inside_block_checkpointing |-> FALSE,
          outside_block_checkpointing |->
              (a.checkpoint_style = "outside_block"),
          encoder |-> enc, decoder |-> dec]

MedNeXtInit(a) ==
    IF ~AssertIn(a.checkpoint_style, CheckpointStyles)
    THEN Err("AssertionError", "MedNeXt.__init__")
    ELSE IF ~AssertIn(a.dim, SupportedDims)
    THEN Err("AssertionError", "MedNeXt.__init__")
    ELSE MedNeXtObject(a,
            MedNeXtEncoderInit(EncoderArgs(a, EncKernelSize(a))),
            MedNeXtDecoderInit(DecoderArgs(a, DecKernelSize(a))))

\* MedNeXt.forward: x, skips = self.encoder(x); out = self.decoder(x, skips)
After(e, d) == [val |-> d.val, trace |-> e.trace \o d.trace]

NetDecode(net, e, pair) ==
    IF IsErr(pair) THEN [val |-> pair, trace |-> e.trace]
    ELSE After(e, MedNeXtDecoderForward(net.decoder, pair.items[1],
                                        pair.items[2]))

NetUnpack(net, e) == NetDecode(net, e, Unpack(e.val, 2))

MedNeXtForward(net, x) == NetUnpack(net, MedNeXtEncoderForward(net.encoder, x))

(***************************************************************************)
(* Constructor arguments and inputs drawn by the model.                    *)
(***************************************************************************)
Classes == {"MedNeXtBlock", "MedNeXtDownBlock", "MedNeXtUpBlock", "OutBlock",
            "MedNeXtEncoder", "MedNeXtDecoder", "MedNeXt"}

\* Supported values and one unsupported value of each option.
Dims == {"2d", "3d", "1d"}
NormTypes == {"group", "layer", "batch"}
Styles == {"None", "outside_block", "inside_block"}
Kernels == 1..MaxKernel

\* Channel width and expansion ratio of a single block.
BlockWidths == {[w |-> 2, e |-> 4], [w |-> 32, e |-> 2]}

\* Base width, expansion ratios and block counts of the nine stage slots.
Profiles ==
    {[n |-> 32, exp_r |-> [scalar |-> TRUE, value |-> <<2>>],
      block_counts |-> <<2, 2, 2, 2, 2, 2, 2, 2, 2>>],
     [n |-> 2,
      exp_r |-> [scalar |-> FALSE, value |-> <<2, 3, 4, 4, 4, 4, 4, 3, 2>>],
      block_counts |-> <<1, 0, 1, 2, 1, 0, 1, 2, 1>>]}

BlockArgSet ==
    {[in_channels |-> we.w, out_channels |-> cout, exp_r |-> we.e,
      kernel_size |-> k, do_res |-> r, norm_type |-> nt, dim |-> d,
      grn |-> g] :
        we \in BlockWidths, cout \in {1, 2, 4, 16, 32, 64},
        k \in Kernels, r \in BOOLEAN, nt \in NormTypes, d \in Dims,
        g \in BOOLEAN}

\* A block keeps or doubles the width, a down block doubles it, an up
\* block halves it.
BlockArgsOf(name) ==
    {a \in BlockArgSet :
        IF name = "MedNeXtBlock"
        THEN a.out_channels \in {a.in_channels, 2 * a.in_channels}
        ELSE IF name = "MedNeXtDownBlock"
        THEN a.out_channels = 2 * a.in_channels
        ELSE 2 * a.out_channels = a.in_channels}

OutBlockArgs ==
    {[in_channels |-> we.w, n_classes |-> 3, dim |-> d] :
        we \in BlockWidths, d \in Dims}

\* Kernel sizes other than 3 are explored with the within-stage residual on
\* and recalibration off.
Explored(k, r, g) == k \in {<<>>, <<3>>} \/ (r /\ ~g)

EncoderArgSet ==
    {a \in
        {[in_channels |-> 1, n_channels |-> p.n, exp_r |-> p.exp_r,
          kernel_size |-> k, do_res |-> r, do_res_up_down |-> ud,
          checkpoint_style |-> cs, block_counts |-> p.block_counts,
          norm_type |-> nt, dim |-> d, grn |-> g] :
            p \in Profiles,
            k \in {<<>>} \cup {<<kk>> : kk \in Kernels},
            r \in BOOLEAN, ud \in BOOLEAN, cs \in Styles, nt \in NormTypes,
            d \in Dims, g \in BOOLEAN} :
        Explored(a.kernel_size, a.do_res, a.grn)}

DecoderArgSet ==
    {a \in
        {[in_channels |-> 1, n_channels |-> p.n, n_classes |-> 3,
          exp_r |-> p.exp_r, kernel_size |-> k, deep_supervision |-> ds,
          do_res |-> r, do_res_up_down |-> ud, checkpoint_style |-> cs,
          block_counts |-> p.block_counts, norm_type |-> nt, dim |-> d,
          grn |-> g] :
            p \in Profiles,
            k \in {<<>>} \cup {<<kk>> : kk \in Kernels},
            ds \in BOOLEAN, r \in BOOLEAN, ud \in BOOLEAN, cs \in Styles,
            nt \in NormTypes, d \in Dims, g \in BOOLEAN} :
        Explored(a.kernel_size, a.do_res, a.grn)}

\* kernel_size with enc_kernel_size and dec_kernel_size left None, and the
\* per-side sizes given with kernel_size None or given too.
KernelChoices ==
    {[kernel_size |-> <<k>>, enc |-> <<>>, dec |-> <<>>] : k \in Kernels}
    \cup {[kernel_size |-> <<>>, enc |-> <<>>, dec |-> <<>>]}
    \cup {[kernel_size |-> ks, enc |-> <<1>>, dec |-> <<1>>] :
             ks \in {<<>>, <<3>>}}

MedNeXtArgSet ==
    {a \in
        {[in_channels |-> 1, n_channels |-> p.n, n_classes |-> 3,
          exp_r |-> p.exp_r, kernel_size |-> kc.kernel_size,
          enc_kernel_size |-> kc.enc, dec_kernel_size |-> kc.dec,
          deep_supervision |-> ds, do_res |-> r, do_res_up_down |-> ud,
          checkpoint_style |-> cs, block_counts |-> p.block_counts,
          norm_type |-> nt, dim |-> d, grn |-> g] :
            p \in Profiles, kc \in KernelChoices,
            ds \in BOOLEAN, r \in BOOLEAN, ud \in BOOLEAN, cs \in Styles,
            nt \in NormTypes, d \in Dims, g \in BOOLEAN} :
        /\ Explored(a.kernel_size, a.do_res, a.grn)
        /\ (a.enc_kernel_size # <<>> => (a.do_res /\ ~a.grn))}

ArgsOf(c) ==
    IF c = "OutBlock" THEN OutBlockArgs
    ELSE IF c = "MedNeXtEncoder" THEN EncoderArgSet
    ELSE IF c = "MedNeXtDecoder" THEN DecoderArgSet
    ELSE IF c = "MedNeXt" THEN MedNeXtArgSet
    ELSE BlockArgsOf(c)

\* Spatial sizes: every small size and the powers of two a five-level
\* pyramid divides evenly.
Sizes == (1..MaxSize) \cup {16, 32, 64}

Cubes(nd) == {AsSeq([i \in 1..nd |-> s]) : s \in Sizes}

\* Cubes, and shapes whose last axis differs from the others.
Spatials(nd) ==
    Cubes(nd) \cup {AsSeq([i \in 1..nd |-> IF i = nd THEN t ELSE s]) :
                       s \in Sizes, t \in 1..MaxAniso}

\* Inputs (batch, channels, *spatial) of the rank and channel count the
\* module was built for.
BlockInputs(channels, dim) ==
    {Tensor(<<b, channels>> \o sp) :
        b \in 1..MaxBatch, sp \in Spatials(NdOf(dim))}

NetInputs(channels, dim) ==
    {Tensor(<<b, channels>> \o sp) :
        b \in 1..MaxBatch, sp \in Cubes(NdOf(dim))}

\* Size of level i of the feature pyramid of an input of size s, as the
\* stride-2 transitions leave it.
RECURSIVE LevelSize(_, _)
LevelSize(s, i) == IF i = 0 THEN s ELSE LevelSize((s + 1) \div 2, i - 1)

LevelMap(t, n, i) ==
    Tensor(<<t.shape[1], n * 2^i>>
           \o [j \in 1..(Len(t.shape) - 2) |-> LevelSize(t.shape[j + 2], i)])

\* Decoder inputs: the coarsest map and the four finer maps, coarsest first.
DecoderInputs(a) ==
    {[x |-> LevelMap(t, a.n_channels, 4),
      skips |-> List(AsSeq([j \in 1..4 |-> LevelMap(t, a.n_channels, 4 - j)]))] :
        t \in NetInputs(a.in_channels, a.dim)}

(***************************************************************************)
(* The state machine: an object of one class is constructed from args and, *)
(* if construction returned, its forward is called once on an input.       *)
(***************************************************************************)
Init ==
    /\ cls \in Classes
    /\ args \in ArgsOf(cls)
    /\ phase = "new"
    /\ obj = None
    /\ input = None
    /\ out = None
    /\ trace = <<>>
    /\ paths = <<>>
    /\ orig = None

\* obj = Class(**args): the object, or the exception and no object.
Construct(c, made) ==
    /\ phase = "new"
    /\ cls = c
    /\ IF IsErr(made)
       THEN phase' = "ctor_error" /\ obj' = None /\ out' = made
       ELSE phase' = "built" /\ obj' = made /\ out' = None
    /\ UNCHANGED <<cls, args, input, trace, paths, orig>>

NewBlock == Construct("MedNeXtBlock", MedNeXtBlockInit(args))
NewDownBlock == Construct("MedNeXtDownBlock", MedNeXtDownBlockInit(args))
NewUpBlock == Construct("MedNeXtUpBlock", MedNeXtUpBlockInit(args))
NewOutBlock ==
    Construct("OutBlock", OutBlockInit(args.in_channels, args.n_classes, args.dim))
NewEncoder == Construct("MedNeXtEncoder", MedNeXtEncoderInit(args))
NewDecoder == Construct("MedNeXtDecoder", MedNeXtDecoderInit(args))
NewMedNeXt == Construct("MedNeXt", MedNeXtInit(args))

\* out = obj(x)
Ready(c) == phase = "built" /\ cls = c

Called(x, val, tr, p) ==
    /\ phase' = "called"
    /\ input' = x
    /\ out' = val
    /\ trace' = tr
    /\ paths' = p
    /\ UNCHANGED <<cls, args, obj, orig>>

Returned(x, r) == Called(x, r.val, r.trace, <<>>)

\* The encoder call also leaves the maps appended to ret before the return.
ReturnedMaps(x, r) == Called(x, r.val, r.trace, r.ret)

\* The input of self.norm in MedNeXtBlock.forward and its result.
NormPaths(blk, x) ==
    <<ConvForward(blk.conv1, x),
      NormForward(blk.norm, ConvForward(blk.conv1, x))>>

CallBlock ==
    /\ Ready("MedNeXtBlock")
    /\ \E x \in BlockInputs(args.in_channels, args.dim) :
           Called(x, MedNeXtBlockForward(obj, x), <<>>, NormPaths(obj, x))

CallDownBlock ==
    /\ Ready("MedNeXtDownBlock")
    /\ \E x \in BlockInputs(args.in_channels, args.dim) :
           Called(x, MedNeXtDownBlockForward(obj, x), <<>>,
                  <<DownMainPath(obj, x), DownResPath(obj, x)>>)

CallUpBlock ==
    /\ Ready("MedNeXtUpBlock")
    /\ \E x \in BlockInputs(args.in_channels, args.dim) :
           Called(x, MedNeXtUpBlockForward(obj, x), <<>>,
                  <<UpMainPath(obj, x), UpResPath(obj, x)>>)

CallOutBlock ==
    /\ Ready("OutBlock")
    /\ \E x \in BlockInputs(args.in_channels, args.dim) :
           Called(x, OutBlockForward(obj, x), <<>>, <<>>)

CallEncoder ==
    /\ Ready("MedNeXtEncoder")
    /\ \E x \in NetInputs(args.in_channels, args.dim) :
           ReturnedMaps(x, MedNeXtEncoderForward(obj, x))

CallDecoder ==
    /\ Ready("MedNeXtDecoder")
    /\ \E i \in DecoderInputs(args) :
           Returned(i, MedNeXtDecoderForward(obj, i.x, i.skips))

CallMedNeXt ==
    /\ Ready("MedNeXt")
    /\ \E x \in NetInputs(args.in_channels, args.dim) :
           Returned(x, MedNeXtForward(obj, x))

\* The up block the decoder pairs with a down block of the encoder (widths
\* swapped, same kernel size and options), called on that block's output.
UpArgsFor(a) ==
    [a EXCEPT !.in_channels = a.out_channels, !.out_channels = a.in_channels]

CallUpOnDown ==
    /\ phase = "called"
    /\ cls = "MedNeXtDownBlock"
    /\ IsTensor(out)
    /\ orig = None
    /\ cls' = "MedNeXtUpBlock"
    /\ args' = UpArgsFor(args)
    /\ obj' = MedNeXtUpBlockInit(args')
    /\ orig' = input
    /\ input' = out
    /\ out' = MedNeXtUpBlockForward(obj', out)
    /\ paths' = <<UpMainPath(obj', out), UpResPath(obj', out)>>
    /\ UNCHANGED <<phase, trace>>

Next ==
    \/ NewBlock
    \/ NewDownBlock
    \/ NewUpBlock
    \/ NewOutBlock
    \/ NewEncoder
    \/ NewDecoder
    \/ NewMedNeXt
    \/ CallBlock
    \/ CallDownBlock
    \/ CallUpBlock
    \/ CallOutBlock
    \/ CallEncoder
    \/ CallDecoder
    \/ CallMedNeXt
    \/ CallUpOnDown

Spec == Init /\ [][Next]_vars

(***************************************************************************)
(* The trainers: build_network_architecture of each trainer class, called  *)
(* with the arguments num_input_channels and enable_deep_supervision on a  *)
(* trainer whose attributes num_input_channels and label_manager are set.  *)
(***************************************************************************)
Twos == <<2, 2, 2, 2, 2, 2, 2, 2, 2>>
ExpB == <<2, 3, 4, 4, 4, 4, 4, 3, 2>>
ExpL == <<3, 4, 8, 8, 8, 8, 8, 4, 3>>
CountsM == <<3, 4, 4, 4, 4, 4, 4, 4, 3>>
CountsL == <<3, 4, 8, 8, 8, 8, 8, 4, 3>>

Scalar(e) == [scalar |-> TRUE, value |-> <<e>>]
Listed(es) == [scalar |-> FALSE, value |-> es]

\* The keyword arguments each build_network_architecture passes to MedNeXt
\* besides in_channels, n_channels = 32 and n_classes.
Builders ==
    {[name |-> "S_kernel3", exp_r |-> Scalar(2), kernel_size |-> 3,
      block_counts |-> Twos, checkpoint_style |-> "None"],
     [name |-> "B_kernel3", exp_r |-> Listed(ExpB), kernel_size |-> 3,
      block_counts |-> Twos, checkpoint_style |-> "None"],
     [name |-> "M_kernel3", exp_r |-> Listed(ExpB), kernel_size |-> 3,
      block_counts |-> CountsM, checkpoint_style |-> "outside_block"],
     [name |-> "L_kernel3", exp_r |-> Listed(ExpL), kernel_size |-> 3,
      block_counts |-> CountsL, checkpoint_style |-> "outside_block"],
     [name |-> "S_kernel5", exp_r |-> Scalar(2), kernel_size |-> 5,
      block_counts |-> Twos, checkpoint_style |-> "None"],
     [name |-> "B_kernel5", exp_r |-> Listed(ExpB), kernel_size |-> 5,
      block_counts |-> Twos, checkpoint_style |-> "None"],
     [name |-> "M_kernel5", exp_r |-> Listed(ExpB), kernel_size |-> 5,
      block_counts |-> CountsM, checkpoint_style |-> "outside_block"],
     [name |-> "L_kernel5", exp_r |-> Listed(ExpL), kernel_size |-> 5,
      block_counts |-> CountsL, checkpoint_style |-> "outside_block"]}

\* The learning-rate subclasses, which inherit build_network_architecture.
LrVariants ==
    {<<"S_kernel5", "lr_1e_4">>, <<"S_kernel5", "lr_25e_5">>,
     <<"B_kernel5", "lr_5e_4">>, <<"B_kernel5", "lr_25e_5">>,
     <<"B_kernel5", "lr_1e_4">>,
     <<"M_kernel5", "lr_5e_4">>, <<"M_kernel5", "lr_25e_5">>,
     <<"M_kernel5", "lr_1e_4">>,
     <<"L_kernel5", "lr_5e_4">>, <<"L_kernel5", "lr_25e_5">>,
     <<"L_kernel5", "lr_1e_4">>}

\* Every trainer class with the class whose build_network_architecture it
\* runs.
TrainerClasses ==
    {[trainer |-> <<b.name, "">>, builder |-> b.name] : b \in Builders}
    \cup {[trainer |-> v, builder |-> v[1]] : v \in LrVariants}

BuilderOf(name) == CHOOSE b \in Builders : b.name = name

\* The call: the trainer, its attributes and the two arguments.
TrainerCalls ==
    {[trainer |-> t.trainer, builder |-> t.builder,
      self_num_input_channels |-> sc, num_segmentation_heads |-> h,
      num_input_channels |-> c, enable_deep_supervision |-> ds] :
        t \in TrainerClasses, sc \in {1, 2}, h \in {2, 3},
        c \in {1, 2}, ds \in BOOLEAN}

\* network = MedNeXt(in_channels=self.num_input_channels, n_channels=32,
\*     n_classes=self.label_manager.num_segmentation_heads, ...,
\*     deep_supervision=True, do_res=True, do_res_up_down=True, ...)
NetworkArgs(call, b) ==
    [in_channels |-> call.self_num_input_channels, n_channels |-> 32,
     n_classes |-> call.num_segmentation_heads, exp_r |-> b.exp_r,
     kernel_size |-> <<b.kernel_size>>, enc_kernel_size |-> <<>>,
     dec_kernel_size |-> <<>>, deep_supervision |-> TRUE, do_res |-> TRUE,
     do_res_up_down |-> TRUE, checkpoint_style |-> b.checkpoint_style,
     block_counts |-> b.block_counts, norm_type |-> "group", dim |-> "3d",
     grn |-> FALSE]

TrainerInit ==
    /\ cls = "Trainer"
    /\ args \in TrainerCalls
    /\ phase = "new"
    /\ obj = None
    /\ input = None
    /\ out = None
    /\ trace = <<>>
    /\ paths = <<>>
    /\ orig = None

\* return network
BuildNetworkArchitecture ==
    /\ phase = "new"
    /\ cls = "Trainer"
    /\ phase' = "built"
    /\ obj' = MedNeXtInit(NetworkArgs(args, BuilderOf(args.builder)))
    /\ UNCHANGED <<cls, args, input, out, trace, paths, orig>>

TrainerNext == BuildNetworkArchitecture

TrainerSpec == TrainerInit /\ [][TrainerNext]_vars

(***************************************************************************)
(* Properties.                                                             *)
(***************************************************************************)
NetClasses == {"MedNeXtEncoder", "MedNeXtDecoder", "MedNeXt"}

\* forward of the class of the state was called and has returned or raised.
CalledOn(c) == phase = "called" /\ cls = c

OddKernel(a) == a.kernel_size % 2 = 1

\* A supported normalization and an input every stride-2 transition halves
\* exactly, with more than one value per channel at the coarsest level.
ValidCall(a, x) ==
    /\ a.norm_type = "group"
    /\ \A i \in 3..Len(x.shape) : x.shape[i] % 16 = 0 /\ x.shape[i] >= 32

AllTensors(v) ==
    /\ IsList(v)
    /\ \A i \in 1..Len(v.items) : IsTensor(v.items[i])

\* Every axis of each item is smaller than the same axis of the next item.
StrictlyFiner(items) ==
    \A i \in 1..(Len(items) - 1) :
        \A j \in 3..Len(items[i].shape) :
            items[i].shape[j] < items[i + 1].shape[j]

\* The spatial size of level i of the pyramid of x.
LevelSpatial(x, i) ==
    AsSeq([j \in 1..(Len(x.shape) - 2) |-> LevelSize(x.shape[j + 2], i)])

\* C1: for a constructed MedNeXt and a valid input, forward returns a single
\* tensor when deep supervision is off; when it is on it returns exactly 5
\* tensors whose spatial sizes strictly increase from the first to the last
\* and whose first has the spatial size of the bottleneck.
C1_ForwardResultShape ==
    (CalledOn("MedNeXt") /\ ValidCall(args, input)) =>
        IF args.deep_supervision
        THEN /\ AllTensors(out)
             /\ Len(out.items) = 5
             /\ StrictlyFiner(out.items)
             /\ Spatial(out.items[1].shape) = LevelSpatial(input, 4)
        ELSE IsTensor(out)

\* C2: the network of base width 32, 1 input channel, 3 classes, '3d', block
\* counts all 2, kernel size 3 and deep supervision, called on an input of
\* shape (1, 1, 64, 64, 64), returns 5 tensors with 3 channels whose spatial
\* shapes are cubes of side 4, 8, 16, 32, 64 in this order.
C2_EndToEnd64 ==
    (/\ CalledOn("MedNeXt")
     /\ args.n_channels = 32 /\ args.in_channels = 1 /\ args.n_classes = 3
     /\ args.dim = "3d" /\ args.block_counts = <<2, 2, 2, 2, 2, 2, 2, 2, 2>>
     /\ args.kernel_size = <<3>> /\ args.deep_supervision
     /\ args.norm_type = "group"
     /\ input = Tensor(<<1, 1, 64, 64, 64>>))
    => /\ IsList(out)
       /\ Len(out.items) = 5
       /\ \A i \in 1..5 :
              out.items[i] = Tensor(<<1, 3, 2^(i + 1), 2^(i + 1), 2^(i + 1)>>)

\* An up block was called on the output of its down block.
RoundTrip == CalledOn("MedNeXtUpBlock") /\ IsTensor(orig) /\ OddKernel(args)

\* The two paths of the block have the same spatial shape.
PathsAgree ==
    (args.do_res /\ IsTensor(paths[1])) =>
        /\ IsTensor(paths[2])
        /\ Spatial(paths[1].shape) = Spatial(paths[2].shape)

\* C3 as stated: for both ranks, every odd kernel size and either setting of
\* the transition residual, the up block applied to the down block's output
\* has the original spatial size on every axis, for every size S >= 1, and
\* the up block's two paths have the same shape after the padding.
C3_RoundTripEverySize ==
    (RoundTrip /\ IsTensor(out)) =>
        /\ Spatial(out.shape) = Spatial(orig.shape)
        /\ PathsAgree

\* C3 as the code has it: the round trip gives the original size on every
\* axis of even size and S + 1 on every axis of odd size S; the up block's
\* two paths have the same spatial shape after the padding.
C3_RoundTripEvenSize ==
    (RoundTrip /\ IsTensor(out)) =>
        /\ Len(out.shape) = Len(orig.shape)
        /\ \A i \in 3..Len(orig.shape) :
               out.shape[i] = IF orig.shape[i] % 2 = 0 THEN orig.shape[i]
                              ELSE orig.shape[i] + 1
        /\ PathsAgree

C3_Witness ==
    /\ RoundTrip /\ IsTensor(out)
    /\ args.do_res /\ args.dim = "3d" /\ args.kernel_size = 3
    /\ Spatial(orig.shape) = <<6, 6, 2>>
    /\ Spatial(out.shape) = <<6, 6, 2>>
    /\ Spatial(paths[2].shape) = <<6, 6, 2>>

\* Every spatial axis of y has half the size of the same axis of x.
Halved(x, y) ==
    /\ Len(y.shape) = Len(x.shape)
    /\ \A i \in 3..Len(x.shape) : 2 * y.shape[i] = x.shape[i]

EvenOnEveryAxis(x) == \A i \in 3..Len(x.shape) : x.shape[i] % 2 = 0

\* C4: for both ranks and every odd kernel size, a down block called on an
\* input of even size S on every axis returns size S / 2 on every axis, and
\* its stride-2 projection has the same S / 2 shape, so that with the
\* transition residual on the two paths are summed without broadcasting.
C4_DownHalvesEvenSize ==
    (CalledOn("MedNeXtDownBlock") /\ OddKernel(args) /\ EvenOnEveryAxis(input))
    => /\ IsTensor(out) => Halved(input, out)
       /\ IsTensor(paths[1]) => Halved(input, paths[1])
       /\ args.do_res => (IsTensor(paths[2]) /\ Halved(input, paths[2]))
       /\ IsErr(out) => IsErr(paths[1])

C4_Witness ==
    /\ CalledOn("MedNeXtDownBlock")
    /\ args.do_res /\ args.dim = "3d" /\ args.kernel_size = 3
    /\ Spatial(input.shape) = <<6, 6, 2>>
    /\ IsTensor(out) /\ Spatial(out.shape) = <<3, 3, 1>>
    /\ Spatial(paths[2].shape) = <<3, 3, 1>>

\* The same arguments with the other of the two checkpoint styles.
OtherStyle(a) ==
    [a EXCEPT !.checkpoint_style = IF @ = "None" THEN "outside_block"
                                   ELSE "None"]

\* forward of an object of class c built from a, on the input x.
ForwardOf(c, a, x) ==
    IF c = "MedNeXt" THEN MedNeXtForward(MedNeXtInit(a), x)
    ELSE IF c = "MedNeXtEncoder"
    THEN MedNeXtEncoderForward(MedNeXtEncoderInit(a), x)
    ELSE MedNeXtDecoderForward(MedNeXtDecoderInit(a), x.x, x.skips)

SameRun(r) == r.val = out /\ r.trace = trace

\* C5: with the same arguments and input, a network built with checkpoint
\* style 'outside_block' and one built with None (and likewise each of the
\* encoder and the decoder on its own) run the same sequence of block
\* applications and end with the same output or the same exception.
C5_CheckpointStyleSameRun ==
    (phase = "called" /\ cls \in NetClasses) =>
        SameRun(ForwardOf(cls, OtherStyle(args), input))

C5_Witness ==
    /\ CalledOn("MedNeXt")
    /\ args.checkpoint_style = "outside_block"
    /\ ValidCall(args, input)
    /\ \E p \in 1..Len(trace) : trace[p].op = "enc_block"
    /\ \A p \in 1..Len(trace) : trace[p].via = "direct"

\* C6: constructing a block, encoder, decoder or network with a norm_type
\* other than 'group' and 'layer' fails at construction: no object is made.
C6_UnsupportedNormFailsConstruction ==
    (phase # "new" /\ cls # "OutBlock" /\ args.norm_type \notin SupportedNorms)
    => (phase = "ctor_error" /\ obj = None /\ IsErr(out))

UnsupportedOption ==
    \/ args.dim \notin SupportedDims
    \/ (cls \in NetClasses /\ args.checkpoint_style \notin CheckpointStyles)

FusionRaised(p) == p = Len(trace) /\ IsErr(out)

\* C8: in the decoder's forward, every fusion of a skip map with an
\* upsampled map whose spatial shapes differ on some axis raises at that
\* fusion, for every input size, sizes not divisible by 16 and size 1
\* included: no operand is resized, cropped or broadcast.
C8_MismatchedFusionRaises ==
    CalledOn("MedNeXtDecoder") =>
        \A p \in 1..Len(trace) :
            (trace[p].op = "fuse"
             /\ Spatial(trace[p].lhs) # Spatial(trace[p].rhs))
            => FusionRaised(p)

\* C9: the encoder's forward on a valid input returns exactly 5 feature
\* maps, finest to coarsest, of channel widths n, 2n, 4n, 8n, 16n.
C9_EncoderReturnsFiveMaps ==
    (CalledOn("MedNeXtEncoder") /\ ValidCall(args, input)) =>
        /\ AllTensors(out)
        /\ Len(out.items) = 5
        /\ \A i \in 1..5 :
               /\ out.items[i].shape[2] = args.n_channels * 2^(i - 1)
               /\ Spatial(out.items[i].shape) = LevelSpatial(input, i - 1)

\* The positions of the trace at which the skip of stage i is fused.
Fusions(i) ==
    {p \in 1..Len(trace) : trace[p].op = "fuse" /\ trace[p].idx = 4 - i}

\* C10: within one forward of the network on a valid input, the encoder's
\* map of each stage i = 0..3 is consumed exactly once, by the fusion of
\* decoder stage i with the upsampled map of the same width and resolution.
C10_EachSkipFusedOnce ==
    (CalledOn("MedNeXt") /\ ValidCall(args, input)) =>
        \A i \in 0..3 :
            /\ Cardinality(Fusions(i)) = 1
            /\ \A p \in Fusions(i) :
                   /\ trace[p].stage = i
                   /\ trace[p].lhs = trace[p].rhs

\* Every axis of each item is larger than the same axis of the next item.
StrictlyCoarser(items) ==
    \A i \in 1..(Len(items) - 1) :
        \A j \in 3..Len(items[i].shape) :
            items[i].shape[j] > items[i + 1].shape[j]

\* The positions of the trace at which an output projection is applied.
Projections == {p \in 1..Len(trace) : trace[p].op = "out"}

\* The decoder's forward returned, its blocks having an odd kernel size.
DecoderReturned ==
    /\ CalledOn("MedNeXtDecoder")
    /\ ~IsErr(out)
    /\ args.kernel_size[1] % 2 = 1

\* C11: the decoder's forward with deep supervision returns the 5 logit
\* maps finest first (the full-resolution map first, the projection of the
\* bottleneck last); out_0 is applied last and its map returned also
\* without deep supervision; out_1..out_4 exist only with deep supervision.
C11_DecoderReturnsFinestFirst ==
    DecoderReturned =>
        /\ Len(obj.out) = IF args.deep_supervision THEN 5 ELSE 1
        /\ trace[Len(trace)].op = "out" /\ trace[Len(trace)].stage = 0
        /\ IF args.deep_supervision
           THEN /\ AllTensors(out)
                /\ Len(out.items) = 5
                /\ StrictlyCoarser(out.items)
                /\ Spatial(out.items[5].shape) = Spatial(input.x.shape)
                /\ \A i \in 1..5 : out.items[i].shape[2] = args.n_classes
                /\ Cardinality(Projections) = 5
           ELSE /\ IsTensor(out)
                /\ out.shape[2] = args.n_classes
                /\ Cardinality(Projections) = 1

C11_Witness ==
    /\ DecoderReturned
    /\ args.deep_supervision /\ args.dim = "3d"
    /\ Spatial(input.x.shape) = <<2, 2, 2>>
    /\ Spatial(out.items[1].shape) = <<32, 32, 32>>
    /\ Spatial(out.items[5].shape) = <<2, 2, 2>>

\* The positions of the trace at which a block of a stage sequence runs.
BlockCalls ==
    {p \in 1..Len(trace) :
        trace[p].op \in {"enc_block", "bottleneck", "dec_block"}}

\* C12: in a forward of a network built with checkpoint style
\* 'outside_block' every block of every stage sequence is invoked through a
\* checkpointed call that is passed the dummy parameter; in a forward of a
\* network built with style None every block is invoked directly.
C12_OutsideBlockCheckpointsEveryBlock ==
    CalledOn("MedNeXt") =>
        \A p \in BlockCalls :
            trace[p].via = IF args.checkpoint_style = "outside_block"
                           THEN "checkpoint" ELSE "direct"

\* A block with a LayerNorm was called and the norm received a tensor.
LayerNormCalled ==
    /\ CalledOn("MedNeXtBlock")
    /\ args.norm_type = "layer"
    /\ IsTensor(paths[1])

\* C13: LayerNorm in 'channels_first' mode, for inputs (B, C, H, W) and
\* (B, C, D, H, W) and every batch size, returns a tensor of exactly the
\* input's shape, the per-channel scale and shift lying on axis 1 of the
\* input when broadcast.
C13_LayerNormChannelsFirst ==
    LayerNormCalled =>
        /\ paths[2] = paths[1]
        /\ Len(AffineShape(LayerNormInit(args.in_channels, "channels_first")))
               = Len(paths[1].shape) - 1

\* An object exists: its constructor returned.
Built == phase \in {"built", "called"}

\* The encoder and the decoder of the object of the state, if it has one.
HasEncoder == Built /\ cls \in {"MedNeXtEncoder", "MedNeXt"}
HasDecoder == Built /\ cls \in {"MedNeXtDecoder", "MedNeXt"}
EncoderOf(o) == IF o.cls = "MedNeXt" THEN o.encoder ELSE o
DecoderOf(o) == IF o.cls = "MedNeXt" THEN o.decoder ELSE o

\* The transition block never adds its input; it has the projection exactly
\* if the flag is set.
NoInputResidual(blk, flag) ==
    /\ ~blk.do_res
    /\ blk.resample_do_res = flag
    /\ ("nd" \in DOMAIN blk.res_conv) = flag

EveryBlock(blocks, P(_)) == \A j \in 1..Len(blocks) : P(blocks[j])

\* C14: a down or up block never adds its unstrided input to its main path,
\* whatever do_res the caller passes; the flag only decides whether the
\* strided 1x1 projection exists and is added; in the encoder and decoder
\* the transition blocks get do_res_up_down and the stage blocks get do_res.
C14_TransitionNeverAddsInput ==
    /\ (Built /\ cls \in {"MedNeXtDownBlock", "MedNeXtUpBlock"}) =>
           NoInputResidual(obj, args.do_res)
    /\ (phase = "called" /\ cls \in {"MedNeXtDownBlock", "MedNeXtUpBlock"}
        /\ ~IsErr(paths[1])) =>
           out = IF args.do_res THEN Add(paths[1], paths[2]) ELSE paths[1]
    /\ HasEncoder =>
           \A i \in 1..4 :
               /\ NoInputResidual(EncoderOf(obj).down[i], args.do_res_up_down)
               /\ LET HasFlag(b) == b.do_res = args.do_res
                  IN  EveryBlock(EncoderOf(obj).enc_block[i], HasFlag)
    /\ HasDecoder =>
           /\ \A i \in 1..4 :
               /\ NoInputResidual(DecoderOf(obj).up[i], args.do_res_up_down)
               /\ LET HasFlag(b) == b.do_res = args.do_res
                  IN  EveryBlock(DecoderOf(obj).dec_block[i], HasFlag)
           /\ LET HasFlag(b) == b.do_res = args.do_res
              IN  EveryBlock(DecoderOf(obj).bottleneck, HasFlag)

C14_Witness ==
    /\ CalledOn("MedNeXtUpBlock")
    /\ ~IsTensor(orig)
    /\ args.do_res /\ args.dim = "2d" /\ args.kernel_size = 3
    /\ ~obj.do_res /\ obj.resample_do_res
    /\ Spatial(input.shape) = <<4, 4>>
    /\ IsTensor(paths[2])
    /\ IsTensor(out) /\ Spatial(out.shape) = <<8, 8>>

\* C15: constructing a MedNeXtBlock with do_res set and in_channels
\* different from out_channels fails at construction: no block is made.
C15_MismatchedResidualFailsConstruction ==
    (/\ phase # "new"
     /\ cls = "MedNeXtBlock"
     /\ args.do_res
     /\ args.in_channels # args.out_channels)
    => (phase = "ctor_error" /\ obj = None /\ IsErr(out))

\* Every block and transition block of the encoder / decoder satisfies P.
EveryEncoderBlock(enc, P(_)) ==
    \A i \in 1..4 : P(enc.down[i]) /\ EveryBlock(enc.enc_block[i], P)

EveryDecoderBlock(dec, P(_)) ==
    /\ EveryBlock(dec.bottleneck, P)
    /\ \A i \in 1..4 : P(dec.up[i]) /\ EveryBlock(dec.dec_block[i], P)

\* The kernel size a side uses according to the claim: its own if supplied,
\* else the shared one.
OwnOrShared(own, shared) == IF own # <<>> THEN own[1] ELSE shared[1]

\* C16: the network's encoder and decoder use the shared kernel_size unless
\* enc_kernel_size / dec_kernel_size is supplied, and then every block of
\* that side has the supplied size; construction succeeds when the per-side
\* sizes are given.
C16_KernelSizeResolution ==
    (cls = "MedNeXt" /\ phase # "new" /\ ~UnsupportedOption) =>
        /\ (args.enc_kernel_size # <<>> /\ args.dec_kernel_size # <<>>)
               => Built
        /\ Built =>
               /\ LET HasSize(b) ==
                          b.conv1.kernel_size =
                              OwnOrShared(args.enc_kernel_size, args.kernel_size)
                  IN  EveryEncoderBlock(obj.encoder, HasSize)
               /\ LET HasSize(b) ==
                          b.conv1.kernel_size =
                              OwnOrShared(args.dec_kernel_size, args.kernel_size)
                  IN  EveryDecoderBlock(obj.decoder, HasSize)

\* C17: every block and every transition block of a network's encoder and
\* decoder has grn enabled exactly if the network was built with grn, and
\* has the network's norm_type and dim.
C17_OptionsReachEveryBlock ==
    (Built /\ cls = "MedNeXt") =>
        LET Uniform(b) ==
                /\ b.grn = args.grn
                /\ b.dim = args.dim
                /\ b.norm = NormOf(args.norm_type, b.conv1.in_channels)
        IN  /\ EveryEncoderBlock(obj.encoder, Uniform)
            /\ EveryDecoderBlock(obj.decoder, Uniform)

\* C18: for every trainer class, the network build_network_architecture
\* returns emits deep-supervision outputs exactly if the argument
\* enable_deep_supervision is true, and is built with the argument
\* num_input_channels.
C18_TrainerHonoursArguments ==
    (cls = "Trainer" /\ phase = "built") =>
        /\ obj.do_ds = args.enable_deep_supervision
        /\ obj.decoder.do_ds = args.enable_deep_supervision
        /\ Len(obj.decoder.out) = IF args.enable_deep_supervision THEN 5 ELSE 1
        /\ obj.encoder.stem.in_channels = args.num_input_channels

====
